---- MODULE Spec2Model ----
(***************************************************************************)
(* SafeMap front end (src/unnamed/part_001, the multi-route variant with   *)
(* scoring and the incident overlay): the form submit handler as a set of  *)
(* concurrent flows that suspend at every await, the Leaflet map as the    *)
(* set of objects attached to it, and the incident overlay calls.  The     *)
(* cards of the earlier variant (src/unnamed/part_000, renderRouteChoices) *)
(* are modelled next to those of part_001.                                 *)
(*                                                                         *)
(* Conventions.                                                            *)
(*  - Text is a sequence of string tokens (mostly single characters).      *)
(*  - Real numbers are scaled integers: coordinates in 1/100 degree,       *)
(*    beta in 1/10, speeds in 1/10 m/s, mean_risk in 1e-9, the deltas      *)
(*    detour_m_vs_beta0 and risk_delta_vs_beta0 in 1/10.                   *)
(*  - A Leaflet object is a record named by the call that created it:     *)
(*    kind "marker" (role, by), "route" (rs, idx: route idx of the         *)
(*    response to flow rs) or "crime" (by).  mapLayers holds the objects   *)
(*    attached to the map.  In the single-route variant of part_000 the    *)
(*    dashed lines are records of kind "connector" (rs, end).              *)
(*  - answer holds the response a step was resumed with (Null in a step    *)
(*    started by the user): to whom, for which await, status and body.     *)
(*    A call of hideCrimeDots leaves HideCall there: a record of the call, *)
(*    of no invocation and with no body.                                   *)
(*  - The element #route-choices is taken to exist (the page is not part   *)
(*    of the sources).                                                     *)
(*  - The locals of a handler invocation are dropped when it returns.      *)
(***************************************************************************)
EXTENDS Integers, Sequences, FiniteSets, TLC

VARIABLES
    flows,         \* f -> the submit handler invocation f: pc and its locals
    alerts,        \* f -> the messages alert() showed for invocation f
    originMarker,  \* part_001:34  reference to a marker object or Null
    destMarker,    \* part_001:35
    markers,       \* the marker objects: id -> position and labels
    view,          \* the map's viewport (last setView / fitBounds)
    mapLayers,     \* the layers attached to the map (tiles aside)
    routeLayers,   \* part_001:88  the tracked route layers
    routeLayer,    \* part_000:212 the route layer of the single-route variant, or Null
    cards,         \* the children of #route-choices
    sheetShown,    \* #route-sheet has display:block
    events,        \* the routes:updated events dispatched, by flow
    crimeLayer,    \* part_001:259 reference to a layer group or Null
    crimeGroups,   \* the layer groups in use: id -> the feature groups in it
    shows,         \* c -> the showCrimeDots invocation c
    answer         \* the network answer the last step resumed with, or Null

vars == <<flows, alerts, originMarker, destMarker, markers, view, mapLayers,
          routeLayers, cards, sheetShown, events, crimeLayer, crimeGroups,
          shows, answer, routeLayer>>

routeVars == <<routeLayers, cards, sheetShown, events>>
markerVars == <<originMarker, destMarker, markers>>
crimeVars == <<crimeLayer, crimeGroups, shows>>

\* ------------------------------------------------------------------ bounds
MaxFlows == 2
MaxShows == 2
MaxRoutes == 3

Flows == 1..MaxFlows
Shows == 1..MaxShows

Null == [null |-> TRUE]

Range(s) == {s[i] : i \in DOMAIN s}

\* ------------------------------------------------------------------ text
Digits == {"0", "1", "2", "3", "4", "5", "6", "7", "8", "9"}

DigitVal(c) ==
    CASE c = "0" -> 0 [] c = "1" -> 1 [] c = "2" -> 2 [] c = "3" -> 3
      [] c = "4" -> 4 [] c = "5" -> 5 [] c = "6" -> 6 [] c = "7" -> 7
      [] c = "8" -> 8 [] c = "9" -> 9

DigitChar(n) ==
    CASE n = 0 -> "0" [] n = 1 -> "1" [] n = 2 -> "2" [] n = 3 -> "3"
      [] n = 4 -> "4" [] n = 5 -> "5" [] n = 6 -> "6" [] n = 7 -> "7"
      [] n = 8 -> "8" [] n = 9 -> "9"

\* \s of the regular expression, and what String.prototype.trim removes
IsSpace(c) == c \in {" ", "\t", "\n"}

RECURSIVE TrimLeft(_)
TrimLeft(s) ==
    IF s # <<>> /\ IsSpace(Head(s)) THEN TrimLeft(Tail(s)) ELSE s

RECURSIVE TrimRight(_)
TrimRight(s) ==
    IF s # <<>> /\ IsSpace(s[Len(s)])
    THEN TrimRight(SubSeq(s, 1, Len(s) - 1))
    ELSE s

trim(s) == TrimRight(TrimLeft(s))

\* first index >= i of s that holds no digit
RECURSIVE DigitsEnd(_, _)
DigitsEnd(s, i) ==
    IF i <= Len(s) /\ s[i] \in Digits THEN DigitsEnd(s, i + 1) ELSE i

\* faulty variant: the separator is one comma
SepEnd_oneComma(s, i) == IF i <= Len(s) /\ s[i] = "," THEN i + 1 ELSE i

\* first index >= i of s that holds neither a comma nor white space
RECURSIVE SepEnd(_, _)
SepEnd(s, i) ==
    IF i <= Len(s) /\ (s[i] = "," \/ IsSpace(s[i])) THEN SepEnd(s, i + 1) ELSE i

\* the group ([+-]?\d+(\.\d+)?) matched at i: the index after it, 0 if none
NumEnd(s, i) ==
    LET a == IF i <= Len(s) /\ s[i] \in {"+", "-"} THEN i + 1 ELSE i
        b == DigitsEnd(s, a)
    IN  IF b = a THEN 0
        ELSE IF b <= Len(s) /\ s[b] = "." /\ DigitsEnd(s, b + 1) > b + 1
             THEN DigitsEnd(s, b + 1)
             ELSE b

RECURSIVE DigitsVal(_)
DigitsVal(s) ==
    IF s = <<>> THEN 0
    ELSE 10 * DigitsVal(SubSeq(s, 1, Len(s) - 1)) + DigitVal(s[Len(s)])

\* parseFloat of a matched group, in 1/100 (digits after the second
\* fractional one are below the model's resolution)
parseFloat(s) ==
    LET neg  == s[1] = "-"
        a    == IF s[1] \in {"+", "-"} THEN 2 ELSE 1
        b    == DigitsEnd(s, a)
        int  == DigitsVal(SubSeq(s, a, b - 1))
        frac == IF b <= Len(s) THEN SubSeq(s, b + 1, Len(s)) ELSE <<>>
        f2   == IF Len(frac) = 0 THEN 0
                ELSE IF Len(frac) = 1 THEN 10 * DigitVal(frac[1])
                ELSE 10 * DigitVal(frac[1]) + DigitVal(frac[2])
        v    == 100 * int + f2
    IN  IF neg THEN 0 - v ELSE v

\* faulty variant: the ranges are not looked at
tryParseLatLon_noRange(text) ==
    IF text = <<>> THEN Null
    ELSE LET t  == trim(text)
             e1 == NumEnd(t, 1)
             s2 == IF e1 = 0 THEN 0 ELSE SepEnd(t, e1)
             e2 == IF e1 = 0 \/ s2 = e1 THEN 0 ELSE NumEnd(t, s2)
         IN  IF e1 = 0 \/ s2 = e1 \/ e2 # Len(t) + 1 THEN Null
             ELSE [lat |-> parseFloat(SubSeq(t, 1, e1 - 1)),
                   lon |-> parseFloat(SubSeq(t, s2, Len(t)))]

\* part_001:41-49
tryParseLatLon(text) ==
    IF text = <<>> THEN Null
    ELSE LET t  == trim(text)
             e1 == NumEnd(t, 1)
             s2 == IF e1 = 0 THEN 0 ELSE SepEnd(t, e1)
             e2 == IF e1 = 0 \/ s2 = e1 THEN 0 ELSE NumEnd(t, s2)
         IN  IF e1 = 0 \/ s2 = e1 \/ e2 # Len(t) + 1 THEN Null
             ELSE LET lat == parseFloat(SubSeq(t, 1, e1 - 1))
                      lon == parseFloat(SubSeq(t, s2, Len(t)))
                  IN  IF lat < -9000 \/ lat > 9000 \/ lon < -18000 \/ lon > 18000
                      THEN Null
                      ELSE [lat |-> lat, lon |-> lon]

RECURSIVE NatChars(_)
NatChars(n) ==
    IF n < 10 THEN <<DigitChar(n)>>
    ELSE NatChars(n \div 10) \o <<DigitChar(n % 10)>>

\* Number.prototype.toFixed(6) of a value held in 1/100
toFixed6(v) ==
    LET a == IF v < 0 THEN 0 - v ELSE v
    IN  (IF v < 0 THEN <<"-">> ELSE <<>>)
        \o NatChars(a \div 100)
        \o <<".", DigitChar((a % 100) \div 10), DigitChar(a % 10)>>
        \o <<"0", "0", "0", "0">>

\* `${lat.toFixed(6)}, ${lon.toFixed(6)} (raw)`
RawDisplay(p) == toFixed6(p.lat) \o <<",", " ">> \o toFixed6(p.lon) \o <<" (raw)">>

\* ------------------------------------------------------------------ coordinate texts
\* the decimal numerals of a value held in 1/100: an optional "+", the
\* fraction written with as few or more digits
Signs(v) == IF v < 0 THEN {<<"-">>} ELSE {<<>>, <<"+">>}

Fracs(c) ==
    LET d1 == DigitChar(c \div 10)
        d2 == DigitChar(c % 10)
    IN  (IF c = 0 THEN {<<>>} ELSE {})
        \cup (IF c % 10 = 0 THEN {<<".", d1>>} ELSE {})
        \cup {<<".", d1, d2>>, <<".", d1, d2, "0">>}

Numerals(v) ==
    LET a == IF v < 0 THEN 0 - v ELSE v
    IN  {sg \o NatChars(a \div 100) \o fr : sg \in Signs(v), fr \in Fracs(a % 100)}

\* the separators: a comma, white space, or a run of both
Separators == {<<",">>, <<" ">>, <<",", " ">>, <<" ", " ">>, <<"\t">>}

\* what surrounds the text in the input field
Paddings == {[l |-> <<>>, r |-> <<>>], [l |-> <<" ">>, r |-> <<" ", " ">>]}

\* the texts "<lat><separator><lon>" for the given values, each with the
\* pair it denotes; core is the text without the padding
PairTextsOf(lat, lon) ==
    {[text |-> pad.l \o a \o sep \o b \o pad.r, core |-> a \o sep \o b,
      lat |-> lat, lon |-> lon] :
        a \in Numerals(lat), b \in Numerals(lon),
        sep \in Separators, pad \in Paddings}

PairTexts(lats, lons) ==
    UNION {PairTextsOf(lat, lon) : lat \in lats, lon \in lons}

\* ------------------------------------------------------------------ inputs
\* what the user may have typed into #origin-input / #dest-input
Q_raw1  == <<"3", "8", ".", "6", "4", ",", "-", "9", "0", ".", "2", "9">>
Q_raw2  == <<" ", "3", "8", ".", "6", " ", " ", "-", "9", "0", ".", "2">>
Q_oor   == <<"9", "5", ",", "2", "0", "0">>
Q_text  == <<"Z", "o", "o">>
Q_blank == <<" ">>

\* the values of #mode-select
Modes == {"walk", "bike", "drive"}

\* the form contents a submission may find
SubmitInputs ==
    { [originQ |-> Q_raw1,  destQ |-> Q_raw2,  mode |-> "walk"],
      [originQ |-> Q_raw2,  destQ |-> Q_raw1,  mode |-> "drive"],
      [originQ |-> Q_text,  destQ |-> Q_raw2,  mode |-> "bike"],
      [originQ |-> Q_oor,   destQ |-> Q_text,  mode |-> "walk"],
      [originQ |-> Q_blank, destQ |-> Q_raw1,  mode |-> "walk"] }

\* coordinate pairs typed as text: inside the ranges (the limits included)
\* and outside of them
ValidPairs == PairTexts({-9000, 5, 9000}, {-18000, -9029, 18000})

OutOfRangePairs ==
    PairTexts({-9001, 9500}, {-9029})
    \cup PairTexts({3864}, {-18001, 20000})
    \cup PairTexts({9001}, {18001})

\* the form contents with such a text in one field
ResolveInputs ==
    UNION {{[originQ |-> r.text, destQ |-> q, mode |-> "walk"],
            [originQ |-> q, destQ |-> r.text, mode |-> "walk"]} :
              r \in ValidPairs \cup OutOfRangePairs, q \in {Q_raw1, Q_text}}

\* what GET /geocode may answer: an error status, no match, or matches
Hit1 == [display_name |-> <<"Saint Louis Zoo">>, lat |-> 3863, lon |-> -9029]
Hit2 == [display_name |-> <<"Zoo Station">>, lat |-> 3861, lon |-> -9025]

GeocodeResponses ==
    { [ok |-> FALSE, body |-> <<>>],
      [ok |-> TRUE,  body |-> <<>>],
      [ok |-> TRUE,  body |-> <<Hit1, Hit2>>],
      [ok |-> TRUE,  body |-> <<Hit2>>] }

\* what GET /route_multi may answer
P(lat, lon) == [lat |-> lat, lon |-> lon]

RS_A ==
    << [beta |-> 0, name |-> "", color |-> "#1d4ed8",
        geojson |-> {P(3864, -9029), P(3860, -9020)},
        stats |-> [length_m |-> 1200, mean_risk |-> 10,
                   detour_m_vs_beta0 |-> 0, risk_delta_vs_beta0 |-> 0]],
       [beta |-> 5, name |-> "", color |-> "#f59e0b",
        geojson |-> {P(3864, -9029), P(3866, -9024), P(3860, -9020)},
        stats |-> [length_m |-> 1320, mean_risk |-> 5,
                   detour_m_vs_beta0 |-> 120, risk_delta_vs_beta0 |-> -40]],
       [beta |-> 10, name |-> "", color |-> "#16a34a",
        geojson |-> {P(3864, -9029), P(3869, -9031), P(3860, -9020)},
        stats |-> [length_m |-> 1800, mean_risk |-> 0,
                   detour_m_vs_beta0 |-> 600, risk_delta_vs_beta0 |-> -90]] >>

RS_B ==
    << [beta |-> 0, name |-> "Direct", color |-> "#dc2626",
        geojson |-> {P(3863, -9029), P(3861, -9025)},
        stats |-> [length_m |-> 700, mean_risk |-> 3,
                   detour_m_vs_beta0 |-> 0, risk_delta_vs_beta0 |-> 0]],
       [beta |-> 20, name |-> "", color |-> "#7c3aed",
        geojson |-> {P(3863, -9029), P(3858, -9027), P(3861, -9025)},
        stats |-> [length_m |-> 900, mean_risk |-> 2,
                   detour_m_vs_beta0 |-> 200, risk_delta_vs_beta0 |-> -1]] >>

\* the server echoes the requested mode; a body without routes is what a
\* success status with an error object looks like
RouteSets == {RS_A, RS_B}

RouteResponsesFor(mode) ==
    { [ok |-> FALSE, body |-> [error |-> "no path"]],
      [ok |-> TRUE,  body |-> [mode |-> mode]] }
    \cup { [ok |-> TRUE, body |-> [mode |-> mode, routes |-> R]] : R \in RouteSets }

RouteResponses == UNION {RouteResponsesFor(mode) : mode \in Modes}

\* a success status with routes of which one comes without its stats
RS_C ==
    << [beta |-> 0, name |-> "", color |-> "#1d4ed8",
        geojson |-> {P(3864, -9029), P(3860, -9020)},
        stats |-> [length_m |-> 1200, mean_risk |-> 10,
                   detour_m_vs_beta0 |-> 0, risk_delta_vs_beta0 |-> 0]],
       [beta |-> 10, name |-> "", color |-> "#16a34a",
        geojson |-> {P(3864, -9029), P(3869, -9031), P(3860, -9020)}] >>

MalformedResponses ==
    {[ok |-> TRUE, body |-> [mode |-> mode, routes |-> RS_C]] : mode \in Modes}

\* route sets by their mean risks (in 1e-9): up to MaxRoutes routes over a few
\* values, and the pairs that give every score from 0 to 100
RiskValues == {0, 1, 5, 10, 20, 21, 40, 41, 100}

RiskTuples ==
    UNION {[1..n -> RiskValues] : n \in 1..MaxRoutes}
    \cup {<<100, r>> : r \in 0..100}

ScoreRoutes(risks) ==
    [i \in DOMAIN risks |->
        [beta |-> 5 * (i - 1), name |-> "", color |-> "#1d4ed8",
         geojson |-> {P(3864, -9029), P(3860, -9020)},
         stats |-> [length_m |-> 1000 + 100 * i, mean_risk |-> risks[i],
                    detour_m_vs_beta0 |-> 100 * (i - 1),
                    risk_delta_vs_beta0 |-> 0]]]

ScoreResponses ==
    {[ok |-> TRUE, body |-> [mode |-> mode, routes |-> ScoreRoutes(risks)]] :
        mode \in Modes, risks \in RiskTuples}

\* route sets by their detours (in 1/10 m; the risk delta mirrors the detour)
DetourValues == {-1200, -15, -14, -10, -9, -4, 0, 4, 9, 10, 14, 15, 1200}

DetourTuples == UNION {[1..n -> DetourValues] : n \in 1..2}

DetourRoutes(detours) ==
    [i \in DOMAIN detours |->
        [beta |-> 5 * (i - 1), name |-> "Route", color |-> "#1d4ed8",
         geojson |-> {P(3864, -9029), P(3860, -9020)},
         stats |-> [length_m |-> 1000 + 100 * i, mean_risk |-> 375000000,
                    detour_m_vs_beta0 |-> detours[i],
                    risk_delta_vs_beta0 |-> 0 - detours[i]]]]

DetourResponses ==
    {[ok |-> TRUE, body |-> [mode |-> mode, routes |-> DetourRoutes(detours)]] :
        mode \in Modes, detours \in DetourTuples}

\* what GET /route may answer (part_000:262): an error status, or a route
\* with the distances in metres from the raw points to the snapped ones, or
\* without them
SnapDistances ==
    {[origin |-> 40, destination |-> 5], [origin |-> 5, destination |-> 40],
     [origin |-> 40, destination |-> 40], [origin |-> 15, destination |-> 15]}

SingleRoute(mode) ==
    [geojson |-> {P(3864, -9029), P(3862, -9025), P(3860, -9020)},
     total_weight |-> 1234, mode |-> mode,
     snapped_origin |-> P(3865, -9029), snapped_destination |-> P(3860, -9021)]

SingleResponses ==
    {[ok |-> FALSE, body |-> [error |-> "no path"]]}
    \cup {[ok |-> TRUE, body |-> SingleRoute(mode)] : mode \in Modes}
    \cup {[ok |-> TRUE, body |-> SingleRoute(mode) @@ [snap_dist_m |-> sd]] :
              mode \in Modes, sd \in SnapDistances}

\* the server echoes the mode of the request
EchoesMode(resp, mode) == "mode" \in DOMAIN resp.body => resp.body.mode = mode

\* ------------------------------------------------------------------ numbers
\* Math.round(n / d) for d > 0: floor(n/d + 1/2)
RoundDiv(n, d) == (2 * n + d) \div (2 * d)

Min2(a, b) == IF a < b THEN a ELSE b
Max2(a, b) == IF a > b THEN a ELSE b

SetMax(S) == CHOOSE x \in S : \A y \in S : y <= x
SetMin(S) == CHOOSE x \in S : \A y \in S : x <= y

\* ------------------------------------------------------------------ markers
\* faulty variant: a marker is created on every call
setMarker_alwaysNew(onMap, ms, lat, lon, title, existing, fresh) ==
    [mapLayers |-> onMap \cup {fresh},
     markers |-> [k \in DOMAIN ms \cup {fresh} |->
                     IF k = fresh
                     THEN [latlng |-> P(lat, lon), title |-> title, popup |-> title]
                     ELSE ms[k]],
     ref |-> fresh]

\* part_001:59-65.  onMap: the layers on the map; ms: the marker objects;
\* fresh: the name the object gets if L.marker creates one
setMarker(onMap, ms, lat, lon, title, existing, fresh) ==
    LET ll == P(lat, lon)
    IN  IF existing = Null
        THEN [mapLayers |-> onMap \cup {fresh},
              markers |-> ms @@ (fresh :> [latlng |-> ll, title |-> title,
                                           popup |-> title]),
              ref |-> fresh]
        ELSE [mapLayers |-> onMap,
              markers |-> [ms EXCEPT ![existing] =
                              [@ EXCEPT !.latlng = ll, !.popup = title]],
              ref |-> existing]

\* L.latLngBounds(pts) / layer.getBounds(): the bounding box of the points
BoundsOf(pts) ==
    [west  |-> SetMin({p.lon : p \in pts}), south |-> SetMin({p.lat : p \in pts}),
     east  |-> SetMax({p.lon : p \in pts}), north |-> SetMax({p.lat : p \in pts})]

\* part_001:32  map.setView([38.6480784, -90.3089436], 15)
InitView == [how |-> "setView", box |-> BoundsOf({P(3865, -9031)}), arg |-> 15]

\* faulty variant: the viewport is left where it was
fitToMarkers_noFit(v, om, dm, ms) == v

\* part_001:68-75.  the viewport after fitToMarkers, given the one before
fitToMarkers(v, om, dm, ms) ==
    LET pts == (IF om # Null THEN <<ms[om].latlng>> ELSE <<>>)
               \o (IF dm # Null THEN <<ms[dm].latlng>> ELSE <<>>)
    IN  IF Len(pts) = 0 THEN v
        ELSE IF Len(pts) = 1
             THEN [how |-> "setView", box |-> BoundsOf({pts[1]}), arg |-> 16]
             ELSE [how |-> "fitBounds", box |-> BoundsOf(Range(pts)), arg |-> 40]

\* ------------------------------------------------------------------ scoring
\* part_001:115  MODE_SPEEDS[mode] || MODE_SPEEDS.walk, in 1/10 m/s
MODE_SPEEDS(mode) ==
    CASE mode = "walk" -> 13 [] mode = "bike" -> 45 [] mode = "drive" -> 110
      [] OTHER -> 13

\* part_001:117-120  fmtMinutes(length_m / speed): whole minutes, suffix "m"
fmtMinutes(length_m, speed10) == RoundDiv(length_m * 10, speed10 * 60)

\* part_001:121-123  (meters / 1609.344).toFixed(1), in 1/10 mile
fmtMiles(meters) == RoundDiv(meters * 10000, 1609344)

\* part_001:126-130  (beta in 1/10)
nameForBeta(beta) ==
    IF beta = 0 THEN "Fastest Route"
    ELSE IF beta >= 10 THEN "Safest Route"
    ELSE "Balanced Route"

\* faulty variant: the relative risk itself is the score
safetyScores_inverted(routes) ==
    LET maxRisk == SetMax({1} \cup {routes[i].stats.mean_risk : i \in DOMAIN routes})
    IN  [i \in DOMAIN routes |->
            LET risk  == routes[i].stats.mean_risk
                score == RoundDiv(100 * Min2(risk, maxRisk), maxRisk)
            IN  Max2(0, Min2(100, score))]

\* faulty variant: no floor under the greatest risk, and a score of 0 where
\* the division would be by 0
safetyScores_noFloor(routes) ==
    LET maxRisk == SetMax({routes[i].stats.mean_risk : i \in DOMAIN routes})
    IN  [i \in DOMAIN routes |->
            LET risk  == routes[i].stats.mean_risk
            IN  IF maxRisk = 0 THEN 0
                ELSE Max2(0, Min2(100,
                         RoundDiv(100 * (maxRisk - Min2(risk, maxRisk)), maxRisk)))]

\* part_001:133-140.  mean_risk is held in units of 1e-9, so that the floor
\* Math.max(1e-9, ...) is 1; rel = risk / maxRisk stays a quotient:
\* (1 - min(1, rel)) * 100 = 100 * (maxRisk - min(risk, maxRisk)) / maxRisk
safetyScores(routes) ==
    LET maxRisk == SetMax({1} \cup {routes[i].stats.mean_risk : i \in DOMAIN routes})
    IN  [i \in DOMAIN routes |->
            LET risk  == routes[i].stats.mean_risk
                score == RoundDiv(100 * (maxRisk - Min2(risk, maxRisk)), maxRisk)
            IN  Max2(0, Min2(100, score))]

\* faulty variant: the thresholds are exclusive
safetyBadge_exclusive(score) ==
    IF score > 80 THEN [text |-> "Safe", klass |-> "badge badge-safe"]
    ELSE IF score > 60 THEN [text |-> "Moderate", klass |-> "badge badge-moderate"]
    ELSE [text |-> "Caution", klass |-> "badge badge-caution"]

\* part_001:141-145
safetyBadge(score) ==
    IF score >= 80 THEN [text |-> "Safe", klass |-> "badge badge-safe"]
    ELSE IF score >= 60 THEN [text |-> "Moderate", klass |-> "badge badge-moderate"]
    ELSE [text |-> "Caution", klass |-> "badge badge-caution"]

\* part_001:146-150
featureChips(beta) ==
    IF beta = 0
    THEN <<"Main thoroughfares", "Sidewalks available", "Direct route prioritizes speed">>
    ELSE IF beta >= 10
    THEN <<"Excellent safety features", "Sidewalks available", "Longer distance">>
    ELSE <<"Mixed safety features", "Sidewalks available", "Moderate complexity">>

\* part_001:243-246
subtitleFor(beta) ==
    IF beta = 0 THEN "Direct route optimized for walk"
    ELSE IF beta >= 10 THEN "Maximum safety route for walk"
    ELSE "Good compromise between speed and safety for walk"

\* part_001:153-257.  the children of #route-choices after the call (the box
\* is emptied first); rs names the response the routes came in
renderRouteChoicesTemplate(rs, routes, mode) ==
    LET speeds == MODE_SPEEDS(mode)
        scores == safetyScores(routes)
    IN  [idx \in DOMAIN routes |->
            LET r == routes[idx]
                length_m == r.stats.length_m
                safety == scores[idx]
            IN  [rs       |-> rs,
                 idx      |-> idx,
                 href     |-> [beta |-> r.beta, mode |-> mode],
                 rail     |-> IF r.color # "" THEN r.color ELSE "#1d4ed8",
                 title    |-> IF r.name # "" THEN r.name ELSE nameForBeta(r.beta),
                 badge    |-> safetyBadge(safety),
                 eta      |-> fmtMinutes(length_m, speeds),
                 miles    |-> fmtMiles(length_m),
                 safety   |-> safety,
                 chips    |-> featureChips(r.beta),
                 subtitle |-> subtitleFor(r.beta)]]

\* ------------------------------------------------------------------ the cards of part_000
\* Number.prototype.toFixed(0) of a value held in 1/10: the nearest whole
\* number, halves away from zero, with its sign
toFixed0(v) ==
    LET a == IF v < 0 THEN 0 - v ELSE v
        n == (a + 5) \div 10
    IN  (IF v < 0 THEN <<"-">> ELSE <<>>) \o NatChars(n)

Abs(v) == IF v < 0 THEN 0 - v ELSE v

\* faulty variant: zero alone counts as the same distance
detourTxt_exactZero(detour) ==
    IF detour = 0 THEN <<"same distance as beta=0">>
    ELSE IF detour > 0 THEN <<"+">> \o toFixed0(detour) \o <<" m">>
    ELSE toFixed0(detour) \o <<" m">>

\* part_000:121-123  (beta stands for the Greek letter of the source text)
detourTxt(detour) ==
    IF Abs(detour) < 10 THEN <<"same distance as beta=0">>
    ELSE IF detour > 0 THEN <<"+">> \o toFixed0(detour) \o <<" m">>
    ELSE toFixed0(detour) \o <<" m">>

\* part_000:125-127  (minus stands for the sign U+2212, the dot of m.risk
\* for the middle dot)
riskTxt(riskDelta) ==
    IF Abs(riskDelta) < 10 THEN <<"same risk as beta=0">>
    ELSE IF riskDelta < 0 THEN <<"minus">> \o toFixed0(Abs(riskDelta)) \o <<" m.risk">>
    ELSE <<"+">> \o toFixed0(riskDelta) \o <<" m.risk">>

\* part_000:129-142  the card of route idx of the response to flow rs: the
\* dot, the title made of r.name and r.beta, and the description with the
\* length in 1/100 km and the mean risk in 1/1000
RouteCard(rs, idx, r) ==
    [rs |-> rs, idx |-> idx, dot |-> r.color, name |-> r.name, beta |-> r.beta,
     km |-> RoundDiv(r.stats.length_m, 10),
     mean_risk |-> RoundDiv(r.stats.mean_risk, 1000000),
     detourTxt |-> detourTxt(r.stats.detour_m_vs_beta0),
     riskTxt |-> riskTxt(r.stats.risk_delta_vs_beta0)]

\* part_000:115-144.  the children of #route-choices after the call, and
\* whether it threw: the box is emptied, then the cards are appended one by
\* one up to the first route without stats
renderRouteChoices(rs, routes) ==
    LET bad == {i \in DOMAIN routes : "stats" \notin DOMAIN routes[i]}
        n   == IF bad = {} THEN Len(routes) ELSE SetMin(bad) - 1
    IN  [cards |-> [i \in 1..n |-> RouteCard(rs, i, routes[i])],
         threw |-> bad # {}]

\* ------------------------------------------------------------------ overlays
\* faulty variant: the array is reset but the layers are not removed from the map
clearRoutes_keepsLayers(onMap, layers) ==
    [mapLayers |-> onMap, routeLayers |-> <<>>]

\* faulty variant: every overlay on the map is removed, the markers aside
clearRoutes_allOverlays(onMap, layers) ==
    [mapLayers |-> {l \in onMap : l.kind = "marker"}, routeLayers |-> <<>>]

\* part_001:90-93.  onMap: the layers attached to the map
clearRoutes(onMap, layers) ==
    [mapLayers |-> onMap \ Range(layers), routeLayers |-> <<>>]

\* faulty variant: the fixed colour of the single-route variant
RouteLayer_fixedColor(rs, idx, r) ==
    [kind |-> "route", rs |-> rs, idx |-> idx, color |-> "#1d4ed8",
     geojson |-> r.geojson]

\* part_001:100-102  L.geoJSON(r.geojson, {style: {color: r.color, ...}})
RouteLayer(rs, idx, r) ==
    [kind |-> "route", rs |-> rs, idx |-> idx, color |-> r.color,
     geojson |-> r.geojson]

\* part_001:133-135, 159  safetyScores reads r.stats.mean_risk of every route
\* before the first card is made: it throws when a route has no stats
ScoringThrows(routes) == \E i \in DOMAIN routes : "stats" \notin DOMAIN routes[i]

\* faulty variant: a result is dropped when the overlays on the map are those
\* of a submission started later
drawMultiRoutes_latestOnly(rs, data, d) ==
    IF \E i \in DOMAIN d.routeLayers : d.routeLayers[i].rs > rs
    THEN [mapLayers |-> d.mapLayers, routeLayers |-> d.routeLayers,
          view |-> d.view, cards |-> d.cards, threw |-> FALSE, message |-> ""]
    ELSE
        LET cleared == clearRoutes(d.mapLayers, d.routeLayers)
        IN  IF "routes" \notin DOMAIN data
            THEN [mapLayers |-> cleared.mapLayers, routeLayers |-> cleared.routeLayers,
                  view |-> d.view, cards |-> d.cards, threw |-> TRUE,
                  message |-> "Cannot read properties of undefined (reading 'forEach')"]
            ELSE LET group == [i \in DOMAIN data.routes |-> RouteLayer(rs, i, data.routes[i])]
                     pts   == UNION {group[i].geojson : i \in DOMAIN group}
                     bad   == ScoringThrows(data.routes)
                 IN  [mapLayers   |-> cleared.mapLayers \cup Range(group),
                      routeLayers |-> cleared.routeLayers \o group,
                      view        |-> IF Len(group) > 0
                                      THEN [how |-> "fitBounds", box |-> BoundsOf(pts),
                                            arg |-> 40]
                                      ELSE d.view,
                      cards       |-> IF bad THEN <<>>
                                      ELSE renderRouteChoicesTemplate(rs, data.routes,
                                               IF "mode" \in DOMAIN data THEN data.mode
                                               ELSE "walk"),
                      threw       |-> bad,
                      message     |-> IF bad
                                      THEN "Cannot read properties of undefined (reading 'mean_risk')"
                                      ELSE ""]

\* part_001:95-113.  d: the display state before; data: the response body;
\* the result holds the display state after and whether the call threw:
\* at data.routes.forEach on a body without routes, after clearRoutes ran,
\* or in renderRouteChoicesTemplate at safetyScores, after the layers were
\* drawn, the viewport fitted and the box of cards emptied
drawMultiRoutes(rs, data, d) ==
    LET cleared == clearRoutes(d.mapLayers, d.routeLayers)
    IN  IF "routes" \notin DOMAIN data
        THEN [mapLayers |-> cleared.mapLayers, routeLayers |-> cleared.routeLayers,
              view |-> d.view, cards |-> d.cards, threw |-> TRUE,
              message |-> "Cannot read properties of undefined (reading 'forEach')"]
        ELSE LET group == [i \in DOMAIN data.routes |-> RouteLayer(rs, i, data.routes[i])]
                 pts   == UNION {group[i].geojson : i \in DOMAIN group}
                 bad   == ScoringThrows(data.routes)
             IN  [mapLayers   |-> cleared.mapLayers \cup Range(group),
                  routeLayers |-> cleared.routeLayers \o group,
                  view        |-> IF Len(group) > 0
                                  THEN [how |-> "fitBounds", box |-> BoundsOf(pts),
                                        arg |-> 40]
                                  ELSE d.view,
                  cards       |-> IF bad THEN <<>>
                                  ELSE renderRouteChoicesTemplate(rs, data.routes,
                                           IF "mode" \in DOMAIN data THEN data.mode
                                           ELSE "walk"),
                  threw       |-> bad,
                  message     |-> IF bad
                                  THEN "Cannot read properties of undefined (reading 'mean_risk')"
                                  ELSE ""]

\* part_000:95-113.  as part_001's, with renderRouteChoices for the cards
drawMultiRoutes0(rs, data, d) ==
    LET cleared == clearRoutes(d.mapLayers, d.routeLayers)
    IN  IF "routes" \notin DOMAIN data
        THEN [mapLayers |-> cleared.mapLayers, routeLayers |-> cleared.routeLayers,
              view |-> d.view, cards |-> d.cards, threw |-> TRUE,
              message |-> "Cannot read properties of undefined (reading 'forEach')"]
        ELSE LET group == [i \in DOMAIN data.routes |-> RouteLayer(rs, i, data.routes[i])]
                 pts   == UNION {group[i].geojson : i \in DOMAIN group}
                 box   == renderRouteChoices(rs, data.routes)
             IN  [mapLayers   |-> cleared.mapLayers \cup Range(group),
                  routeLayers |-> cleared.routeLayers \o group,
                  view        |-> IF Len(group) > 0
                                  THEN [how |-> "fitBounds", box |-> BoundsOf(pts),
                                        arg |-> 40]
                                  ELSE d.view,
                  cards       |-> box.cards,
                  threw       |-> box.threw,
                  message     |-> IF box.threw
                                  THEN "Cannot read properties of undefined (reading 'detour_m_vs_beta0')"
                                  ELSE ""]

\* part_000:254-263  the resumption of fetchRoute
fetchRoute(resp) ==
    IF ~resp.ok
    THEN [threw |-> TRUE, message |-> "Route failed", data |-> Null]
    ELSE [threw |-> FALSE, message |-> "", data |-> resp.body]

\* part_000:315  const DOT = 15, in metres
DOT == 15

\* part_000:316-322  the dashed lines from the raw points o and d to the
\* snapped ones, drawn where the snap distance is above DOT
Connectors(rs, data, o, d) ==
    IF "snap_dist_m" \notin DOMAIN data THEN {}
    ELSE (IF data.snap_dist_m.origin > DOT
          THEN {[kind |-> "connector", rs |-> rs, end |-> "origin",
                 from |-> P(o.lat, o.lon), to |-> data.snapped_origin]}
          ELSE {})
         \cup (IF data.snap_dist_m.destination > DOT
               THEN {[kind |-> "connector", rs |-> rs, end |-> "destination",
                      from |-> P(d.lat, d.lon), to |-> data.snapped_destination]}
               ELSE {})

\* faulty variant: the status is not looked at
fetchRoutesMulti_noStatusCheck(resp) ==
    [threw |-> FALSE, message |-> "", data |-> resp.body]

\* part_001:83-85  the resumption of fetchRoutesMulti: throws on an error
\* status, else hands on the parsed body
fetchRoutesMulti(resp) ==
    IF ~resp.ok
    THEN [threw |-> TRUE, message |-> "Route computation failed", data |-> Null]
    ELSE [threw |-> FALSE, message |-> "", data |-> resp.body]

\* faulty variant: the matches come in reverse order
geocode_reversed(resp) ==
    IF ~resp.ok
    THEN [threw |-> TRUE, message |-> "Geocode failed", r |-> <<>>]
    ELSE [threw |-> FALSE, message |-> "",
          r |-> [i \in DOMAIN resp.body |-> resp.body[Len(resp.body) + 1 - i]]]

\* part_001:53-55  the resumption of geocode
geocode(resp) ==
    IF ~resp.ok
    THEN [threw |-> TRUE, message |-> "Geocode failed", r |-> <<>>]
    ELSE [threw |-> FALSE, message |-> "", r |-> resp.body]

\* ------------------------------------------------------------------ incidents
\* what GET /crimes may answer
F_a == [geometry |-> [coordinates |-> <<-9029, 3864>>], properties |-> [severity |-> 120]]
F_b == [geometry |-> [coordinates |-> <<-9025, 3861>>], properties |-> [kind |-> "theft"]]

CrimeResponses ==
    { [ok |-> FALSE, body |-> [error |-> "db"]],
      [ok |-> TRUE,  body |-> [type |-> "FeatureCollection"]],
      [ok |-> TRUE,  body |-> [type |-> "FeatureCollection", features |-> <<>>]],
      [ok |-> TRUE,  body |-> [type |-> "FeatureCollection", features |-> <<F_a, F_b>>]],
      [ok |-> TRUE,  body |-> [type |-> "FeatureCollection", features |-> <<F_b>>]] }

\* part_001:261-267
colorBySeverity(sev) ==
    IF sev >= 100 THEN "#d97706"
    ELSE IF sev >= 50 THEN "#f59e0b"
    ELSE IF sev >= 10 THEN "#60a5fa"
    ELSE "#93c5fd"

\* part_001:297-309  the circle marker of feature idx of fetch c (its radius,
\* a logarithm of the severity, is left out)
CrimeMarker(c, idx, f) ==
    LET sev == IF "severity" \in DOMAIN f.properties THEN f.properties.severity ELSE 0
    IN  [fetch |-> c, idx |-> idx,
         latlng |-> P(f.geometry.coordinates[2], f.geometry.coordinates[1]),
         color |-> colorBySeverity(sev), fillColor |-> colorBySeverity(sev),
         tooltip |-> <<"Severity: ", sev>>]

\* faulty variant: an existing group is reused without clearLayers()
crimeLayerFor_noClear(c, cl, onMap, cg) ==
    LET new == [kind |-> "crime", by |-> c]
    IN  IF cl = Null
        THEN [crimeLayer |-> new, mapLayers |-> onMap \cup {new},
              crimeGroups |-> cg @@ (new :> {})]
        ELSE [crimeLayer |-> cl, mapLayers |-> onMap, crimeGroups |-> cg]

\* part_001:288-293  the layer group the markers go to: a new one, attached
\* to the map, when crimeLayer is null; else the old one, emptied.
\* cl: crimeLayer; onMap: the layers on the map; cg: the groups' contents
crimeLayerFor(c, cl, onMap, cg) ==
    LET new == [kind |-> "crime", by |-> c]
    IN  IF cl = Null
        THEN [crimeLayer |-> new, mapLayers |-> onMap \cup {new},
              crimeGroups |-> cg @@ (new :> {})]
        ELSE [crimeLayer |-> cl, mapLayers |-> onMap,
              crimeGroups |-> [cg EXCEPT ![cl] = {}]]

\* part_001:282-283  the resumption of fetchCrimesInView
fetchCrimesInView(resp) ==
    IF ~resp.ok
    THEN [threw |-> TRUE, message |-> "Failed to load crimes", data |-> Null]
    ELSE [threw |-> FALSE, message |-> "", data |-> resp.body]

\* part_001:286-311, from the resumption after the fetch: the overlay state
\* after, and whether the call threw (data.features.forEach without features)
showCrimeDots(c, data, cl, onMap, cg) ==
    LET l == crimeLayerFor(c, cl, onMap, cg)
    IN  IF "features" \notin DOMAIN data
        THEN [crimeLayer |-> l.crimeLayer, mapLayers |-> l.mapLayers,
              crimeGroups |-> l.crimeGroups, threw |-> TRUE]
        ELSE LET pts == [i \in DOMAIN data.features |-> CrimeMarker(c, i, data.features[i])]
             IN  [crimeLayer  |-> l.crimeLayer,
                  mapLayers   |-> l.mapLayers,
                  crimeGroups |-> IF Len(pts) > 0
                                  THEN [l.crimeGroups EXCEPT ![l.crimeLayer] = @ \cup {pts}]
                                  ELSE l.crimeGroups,
                  threw       |-> FALSE]

\* part_001:313-318  (the group, detached and unreferenced, is dropped)
hideCrimeDots(cl, onMap, cg) ==
    IF cl # Null
    THEN [crimeLayer |-> Null, mapLayers |-> onMap \ {cl},
          crimeGroups |-> [k \in DOMAIN cg \ {cl} |-> cg[k]]]
    ELSE [crimeLayer |-> cl, mapLayers |-> onMap, crimeGroups |-> cg]

\* ------------------------------------------------------------------ state
NoObjects == [k \in {} |-> Null]

IdleFlow == [pc |-> "idle", originQ |-> <<>>, destQ |-> <<>>, mode |-> "",
             o |-> Null, d |-> Null, req |-> Null]
DoneFlow == [IdleFlow EXCEPT !.pc = "done"]

IdleShow == [pc |-> "idle", bbox |-> Null, n |-> 0]

Init ==
    /\ flows = [f \in Flows |-> IdleFlow]
    /\ alerts = [f \in Flows |-> <<>>]
    /\ answer = Null
    /\ originMarker = Null
    /\ destMarker = Null
    /\ markers = NoObjects
    /\ view = InitView
    /\ mapLayers = {}
    /\ routeLayers = <<>>
    /\ routeLayer = Null
    /\ cards = <<>>
    /\ sheetShown = FALSE
    /\ events = <<>>
    /\ crimeLayer = Null
    /\ crimeGroups = NoObjects
    /\ shows = [c \in Shows |-> IdleShow]

\* the layers of each kind on the map
MapRoutes  == {l \in mapLayers : l.kind = "route"}
MapMarkers == {l \in mapLayers : l.kind = "marker"}
MapCrime   == {l \in mapLayers : l.kind = "crime"}

\* ------------------------------------------------------------------ the submit handler
\* faulty variant: the failure is shown twice
EndWithAlert_twice(f, msg) ==
    /\ alerts' = [alerts EXCEPT ![f] = Append(Append(@, msg), msg)]
    /\ flows' = [flows EXCEPT ![f] = DoneFlow]

\* part_001:369-372  catch (err) { console.error(err); alert(err.message) },
\* and the alerts before a return: the invocation ends with one message
EndWithAlert(f, msg) ==
    /\ alerts' = [alerts EXCEPT ![f] = Append(@, msg)]
    /\ flows' = [flows EXCEPT ![f] = DoneFlow]

\* the answer to the await `aw` of invocation `to`
Answer(to, aw, url, resp) ==
    [to |-> to, await |-> aw, url |-> url, ok |-> resp.ok, body |-> resp.body]

\* part_001:359-365  both points are resolved: place the markers, fit the
\* viewport, send the route request and suspend
PlaceAndRequest(f, rec, o, d) ==
    LET m1 == setMarker(mapLayers, markers, o.lat, o.lon,
                        <<"Origin: ">> \o o.display, originMarker,
                        [kind |-> "marker", role |-> "origin", by |-> f])
        m2 == setMarker(m1.mapLayers, m1.markers, d.lat, d.lon,
                        <<"Destination: ">> \o d.display, destMarker,
                        [kind |-> "marker", role |-> "dest", by |-> f])
    IN  /\ originMarker' = m1.ref
        /\ destMarker' = m2.ref
        /\ markers' = m2.markers
        /\ mapLayers' = m2.mapLayers
        /\ view' = fitToMarkers(view, m1.ref, m2.ref, m2.markers)
        /\ flows' = [flows EXCEPT ![f] =
              [rec EXCEPT !.pc = "route", !.o = o, !.d = d,
                          !.req = [orig_lat |-> o.lat, orig_lon |-> o.lon,
                                   dest_lat |-> d.lat, dest_lon |-> d.lon,
                                   mode |-> rec.mode]]]
        /\ UNCHANGED alerts

\* part_001:351-357  the origin o is resolved; rec.d is tryParseLatLon(destQ);
\* req is the request the flow waits for: here GET /geocode?q=destQ
ResolveDest(f, rec, o) ==
    IF rec.d = Null
    THEN /\ flows' = [flows EXCEPT ![f] =
                [rec EXCEPT !.pc = "geoD", !.o = o, !.req = [q |-> rec.destQ]]]
         /\ UNCHANGED <<alerts, markerVars, mapLayers, view>>
    ELSE PlaceAndRequest(f, rec, o,
             [lat |-> rec.d.lat, lon |-> rec.d.lon, display |-> RawDisplay(rec.d)])

\* part_001:328-349  the submit event, up to the first await; in: the form
Submit(f, in) ==
    /\ flows[f].pc = "idle"
    /\ IF f = 1 THEN TRUE ELSE flows[f - 1].pc # "idle"
    /\ LET originQ == trim(in.originQ)
           destQ   == trim(in.destQ)
           o       == tryParseLatLon(originQ)
           rec     == [IdleFlow EXCEPT !.originQ = originQ, !.destQ = destQ,
                                       !.mode = in.mode,
                                       !.d = tryParseLatLon(destQ)]
       IN  IF originQ = <<>> \/ destQ = <<>>
           THEN /\ EndWithAlert(f, "Please enter both origin and destination.")
                /\ UNCHANGED <<markerVars, mapLayers, view>>
           ELSE IF o = Null
           THEN /\ flows' = [flows EXCEPT ![f] =
                       [rec EXCEPT !.pc = "geoO", !.req = [q |-> originQ]]]
                /\ UNCHANGED <<alerts, markerVars, mapLayers, view>>
           ELSE ResolveDest(f, rec,
                    [lat |-> o.lat, lon |-> o.lon, display |-> RawDisplay(o)])
    /\ answer' = Null
    /\ UNCHANGED <<routeVars, routeLayer, crimeVars>>

\* part_001:52-56, 344-346  geocode(originQ) answers
GeocodeOrigin(f, resp) ==
    /\ flows[f].pc = "geoO"
    /\ answer' = Answer(f, "origin", "/geocode", resp)
    /\ LET g == geocode(resp)
       IN  IF g.threw
           THEN /\ EndWithAlert(f, g.message)
                /\ UNCHANGED <<markerVars, mapLayers, view>>
           ELSE IF Len(g.r) = 0
           THEN /\ EndWithAlert(f, "Origin not found.")
                /\ UNCHANGED <<markerVars, mapLayers, view>>
           ELSE ResolveDest(f, flows[f],
                    [lat |-> g.r[1].lat, lon |-> g.r[1].lon,
                     display |-> g.r[1].display_name])
    /\ UNCHANGED <<routeVars, routeLayer, crimeVars>>

\* part_001:52-56, 352-354  geocode(destQ) answers
GeocodeDest(f, resp) ==
    /\ flows[f].pc = "geoD"
    /\ answer' = Answer(f, "dest", "/geocode", resp)
    /\ LET g == geocode(resp)
       IN  IF g.threw
           THEN /\ EndWithAlert(f, g.message)
                /\ UNCHANGED <<markerVars, mapLayers, view>>
           ELSE IF Len(g.r) = 0
           THEN /\ EndWithAlert(f, "Destination not found.")
                /\ UNCHANGED <<markerVars, mapLayers, view>>
           ELSE PlaceAndRequest(f, flows[f], flows[f].o,
                    [lat |-> g.r[1].lat, lon |-> g.r[1].lon,
                     display |-> g.r[1].display_name])
    /\ UNCHANGED <<routeVars, routeLayer, crimeVars>>

\* part_001:83-85, 365-372  /route_multi answers
RouteResponse(f, resp) ==
    /\ flows[f].pc = "route"
    /\ EchoesMode(resp, flows[f].req.mode)
    /\ answer' = Answer(f, "route", "/route_multi", resp)
    /\ LET got == fetchRoutesMulti(resp)
       IN  IF got.threw
           THEN /\ EndWithAlert(f, got.message)
                /\ UNCHANGED <<routeVars, mapLayers, view>>
           ELSE LET r == drawMultiRoutes(f, got.data,
                            [mapLayers |-> mapLayers, routeLayers |-> routeLayers,
                             view |-> view, cards |-> cards])
                IN  /\ mapLayers' = r.mapLayers
                    /\ routeLayers' = r.routeLayers
                    /\ view' = r.view
                    /\ cards' = r.cards
                    /\ IF r.threw
                       THEN /\ EndWithAlert(f, r.message)
                            /\ UNCHANGED <<sheetShown, events>>
                       ELSE /\ sheetShown' = TRUE
                            /\ events' = Append(events, f)
                            /\ flows' = [flows EXCEPT ![f] = DoneFlow]
                            /\ UNCHANGED alerts
    /\ UNCHANGED <<markerVars, crimeVars, routeLayer>>

\* part_000:77-86, 189-195  /route_multi answers the handler of part_000,
\* which ends after drawMultiRoutes (no sheet, no event)
RouteResponse0(f, resp) ==
    /\ flows[f].pc = "route"
    /\ EchoesMode(resp, flows[f].req.mode)
    /\ answer' = Answer(f, "route", "/route_multi", resp)
    /\ LET got == fetchRoutesMulti(resp)
       IN  IF got.threw
           THEN /\ EndWithAlert(f, got.message)
                /\ UNCHANGED <<mapLayers, view, routeLayers, cards>>
           ELSE LET r == drawMultiRoutes0(f, got.data,
                            [mapLayers |-> mapLayers, routeLayers |-> routeLayers,
                             view |-> view, cards |-> cards])
                IN  /\ mapLayers' = r.mapLayers
                    /\ routeLayers' = r.routeLayers
                    /\ view' = r.view
                    /\ cards' = r.cards
                    /\ IF r.threw
                       THEN EndWithAlert(f, r.message)
                       ELSE /\ flows' = [flows EXCEPT ![f] = DoneFlow]
                            /\ UNCHANGED alerts
    /\ UNCHANGED <<sheetShown, events, markerVars, crimeVars, routeLayer>>

\* part_000:254-263, 306-328  /route answers the handler of the single-route
\* variant with connectors: the old route layer is removed, the new one
\* added and fitted, and the connectors are added
RouteResponse1(f, resp) ==
    /\ flows[f].pc = "route"
    /\ EchoesMode(resp, flows[f].req.mode)
    /\ answer' = Answer(f, "route", "/route", resp)
    /\ LET got == fetchRoute(resp)
       IN  IF got.threw
           THEN /\ EndWithAlert(f, got.message)
                /\ UNCHANGED <<mapLayers, view, routeLayer>>
           ELSE LET layer == [kind |-> "route", rs |-> f, idx |-> 1,
                              color |-> "#1d4ed8", geojson |-> got.data.geojson]
                IN  /\ routeLayer' = layer
                    /\ mapLayers' = ((mapLayers \ {routeLayer}) \cup {layer})
                                        \cup Connectors(f, got.data, flows[f].o, flows[f].d)
                    /\ view' = [how |-> "fitBounds", box |-> BoundsOf(layer.geojson),
                                arg |-> 40]
                    /\ flows' = [flows EXCEPT ![f] = DoneFlow]
                    /\ UNCHANGED alerts
    /\ UNCHANGED <<routeVars, markerVars, crimeVars>>

\* ------------------------------------------------------------------ the incident overlay
\* part_001:275-281, 287  showCrimeDots is called: the request carries the
\* viewport's bounds, and the call suspends
ShowCrimeDots(c) ==
    /\ shows[c].pc = "idle"
    /\ IF c = 1 THEN TRUE ELSE shows[c - 1].pc # "idle"
    /\ shows' = [shows EXCEPT ![c] = [pc |-> "fetch", bbox |-> view.box, n |-> 0]]
    /\ answer' = Null
    /\ UNCHANGED <<flows, alerts, markerVars, view, mapLayers, routeVars,
                   routeLayer, crimeLayer, crimeGroups>>

\* part_001:282-283, 288-311  /crimes answers; the call ends "done", or
\* "failed" when it threw; n: the number of features received
CrimeResponse(c, resp) ==
    /\ shows[c].pc = "fetch"
    /\ LET got == fetchCrimesInView(resp)
       IN  IF got.threw
           THEN /\ shows' = [shows EXCEPT ![c] = [pc |-> "failed", bbox |-> Null, n |-> 0]]
                /\ UNCHANGED <<crimeLayer, crimeGroups, mapLayers>>
           ELSE LET r == showCrimeDots(c, got.data, crimeLayer, mapLayers, crimeGroups)
                IN  /\ crimeLayer' = r.crimeLayer
                    /\ mapLayers' = r.mapLayers
                    /\ crimeGroups' = r.crimeGroups
                    /\ shows' = [shows EXCEPT ![c] =
                          [pc |-> IF r.threw THEN "failed" ELSE "done",
                           bbox |-> Null,
                           n |-> IF r.threw THEN 0 ELSE Len(got.data.features)]]
    /\ answer' = Answer(c, "crimes", "/crimes", resp)
    /\ UNCHANGED <<flows, alerts, markerVars, view, routeVars, routeLayer>>

\* what a call of hideCrimeDots leaves in answer
HideCall == [to |-> 0, await |-> "hideCrimeDots", url |-> "", ok |-> TRUE,
             body |-> Null]

\* part_001:313-318
HideCrimeDots ==
    /\ LET r == hideCrimeDots(crimeLayer, mapLayers, crimeGroups)
       IN  /\ crimeLayer' = r.crimeLayer
           /\ mapLayers' = r.mapLayers
           /\ crimeGroups' = r.crimeGroups
    /\ answer' = HideCall
    /\ UNCHANGED <<flows, alerts, markerVars, view, routeVars, routeLayer, shows>>

\* ------------------------------------------------------------------ specifications
\* the submission flows
Next ==
    \/ \E f \in Flows, in \in SubmitInputs : Submit(f, in)
    \/ \E f \in Flows, resp \in GeocodeResponses : GeocodeOrigin(f, resp)
    \/ \E f \in Flows, resp \in GeocodeResponses : GeocodeDest(f, resp)
    \/ \E f \in Flows, resp \in RouteResponses : RouteResponse(f, resp)

Spec == Init /\ [][Next]_vars

\* the incident overlay, toggled while two submissions of coordinates run
CrimeFlows == {1, 2}
CrimeInputs == {in \in SubmitInputs :
                   tryParseLatLon(trim(in.originQ)) # Null
                   /\ tryParseLatLon(trim(in.destQ)) # Null}

NextCrime ==
    \/ \E c \in Shows : ShowCrimeDots(c)
    \/ \E c \in Shows, resp \in CrimeResponses : CrimeResponse(c, resp)
    \/ HideCrimeDots
    \/ \E f \in CrimeFlows, in \in CrimeInputs : Submit(f, in)
    \/ \E f \in CrimeFlows, resp \in RouteResponses : RouteResponse(f, resp)

SpecCrime == Init /\ [][NextCrime]_vars

\* one submission of a coordinate text
NextResolve ==
    \/ \E in \in ResolveInputs : Submit(1, in)
    \/ \E resp \in GeocodeResponses : GeocodeOrigin(1, resp)
    \/ \E resp \in GeocodeResponses : GeocodeDest(1, resp)
    \/ \E resp \in RouteResponses : RouteResponse(1, resp)

SpecResolve == Init /\ [][NextResolve]_vars

\* two submissions, the routing service answering with malformed routes too
NextOrder ==
    \/ \E f \in CrimeFlows, in \in SubmitInputs : Submit(f, in)
    \/ \E f \in CrimeFlows, resp \in GeocodeResponses : GeocodeOrigin(f, resp)
    \/ \E f \in CrimeFlows, resp \in GeocodeResponses : GeocodeDest(f, resp)
    \/ \E f \in CrimeFlows, resp \in RouteResponses \cup MalformedResponses :
           RouteResponse(f, resp)

SpecOrder == Init /\ [][NextOrder]_vars

\* one submission of coordinates, answered with routes of all kinds of risks
NextScore ==
    \/ \E in \in CrimeInputs : Submit(1, in)
    \/ \E resp \in ScoreResponses : RouteResponse(1, resp)

SpecScore == Init /\ [][NextScore]_vars

\* part_000: two submissions of coordinates, answered with routes of all
\* kinds of detours, or with a failure
NextDetour ==
    \/ \E f \in CrimeFlows, in \in CrimeInputs : Submit(f, in)
    \/ \E f \in CrimeFlows,
          resp \in DetourResponses \cup RouteResponses \cup MalformedResponses :
           RouteResponse0(f, resp)

SpecDetour == Init /\ [][NextDetour]_vars

\* part_000, the single-route variant with connectors: submissions of
\* coordinates
NextSingle ==
    \/ \E f \in Flows, in \in CrimeInputs : Submit(f, in)
    \/ \E f \in Flows, resp \in SingleResponses : RouteResponse1(f, resp)

SpecSingle == Init /\ [][NextSingle]_vars

\* ------------------------------------------------------------------ properties
\* this step resumes flow f with the answer to its await aw
Answered(f, aw) ==
    /\ flows'[f] # flows[f]
    /\ answer' # Null
    /\ answer'.to = f /\ answer'.await = aw

\* flow f places the markers and sends its route request in this step
Places(f) == flows[f].pc # "route" /\ flows'[f].pc = "route"

\* flow f runs drawMultiRoutes to its end in this step
Draws(f) == flows[f].pc = "route" /\ events' = Append(events, f)

RoleMarkers(onMap, role) == {m \in onMap : m.kind = "marker" /\ m.role = role}

\* C1: in every reachable state the route overlays attached to the map come
\* from at most one result set, whatever the interleaving of the flows.
C1_OneGeneration == \A a, b \in MapRoutes : a.rs = b.rs

\* flow 2 was submitted while flow 1 was waiting, drew first, and flow 1 drew
\* over it
C1_Witness == events = <<2, 1>> /\ Cardinality(MapRoutes) >= 2

\* C2: when drawMultiRoutes runs for a result set while the overlays of an
\* earlier one are live, the live overlays afterwards are exactly one per
\* route of the new set, in order and in the route's colour, attached and
\* tracked, and no overlay of the earlier set is attached or tracked.
C2_RedrawReplaces ==
    [][\A f \in Flows :
          (Draws(f) /\ MapRoutes # {}) =>
              LET R == answer'.body.routes
              IN  /\ Len(routeLayers') = Len(R)
                  /\ \A i \in DOMAIN R :
                        /\ routeLayers'[i].rs = f
                        /\ routeLayers'[i].idx = i
                        /\ routeLayers'[i].color = R[i].color
                        /\ routeLayers'[i].geojson = R[i].geojson
                  /\ MapRoutes' = Range(routeLayers')
                  /\ Cardinality(MapRoutes') = Len(R)
                  /\ \A l \in MapRoutes \cup Range(routeLayers) :
                        l \notin MapRoutes' /\ l \notin Range(routeLayers')]_vars

\* the routes of the first drawing were replaced by the two of the second
C2_Witness ==
    /\ Len(events) = 2
    /\ answer # Null /\ answer.to = events[2] /\ answer.body.routes = RS_B
    /\ Cardinality(MapRoutes) = 2
    /\ \A l \in MapRoutes : l.rs = events[2]

\* C3: once a submission has finished, the cards in the route-choices box and
\* the live route overlays derive from the same result set, or there are
\* neither cards nor overlays.
C3_CardsMatchOverlays ==
    (\E f \in Flows : flows[f].pc = "done") =>
        /\ {cards[i].rs : i \in DOMAIN cards} = {l.rs : l \in MapRoutes}
        /\ Len(cards) = Cardinality(MapRoutes)

\* C4: when several submissions have drawn their results and none is still
\* running, the overlays and the cards are those of the submission started
\* last (flows are numbered in the order they are started).
C4_LatestSubmissionWins ==
    ((\A f \in Flows : flows[f].pc \in {"idle", "done"}) /\ Len(events) >= 2) =>
        /\ \A l \in MapRoutes : l.rs = SetMax(Range(events))
        /\ \A i \in DOMAIN cards : cards[i].rs = SetMax(Range(events))

C6_MarkersBeforeRequest ==
    [][\A f \in Flows :
          /\ Places(f) =>
                LET q == flows'[f].req
                IN  /\ {originMarker', destMarker'} \subseteq mapLayers'
                    /\ markers'[originMarker'].latlng = P(q.orig_lat, q.orig_lon)
                    /\ markers'[destMarker'].latlng = P(q.dest_lat, q.dest_lon)
                    /\ view' = [how |-> "fitBounds",
                                box |-> BoundsOf({P(q.orig_lat, q.orig_lon),
                                                  P(q.dest_lat, q.dest_lon)}),
                                arg |-> 40]
          /\ flows'[f].pc = "route" =>
                originMarker' \in mapLayers' /\ destMarker' \in mapLayers'
          /\ (Answered(f, "route") /\ Len(alerts'[f]) > Len(alerts[f])) =>
                /\ UNCHANGED <<originMarker, destMarker, markers>>
                /\ MapMarkers' = MapMarkers
                /\ (\A g \in Flows \ {f} : flows[g].pc = "idle") =>
                      /\ markers'[originMarker'].latlng =
                             P(flows[f].req.orig_lat, flows[f].req.orig_lon)
                      /\ markers'[destMarker'].latlng =
                             P(flows[f].req.dest_lat, flows[f].req.dest_lon)]_vars

\* the only submission failed at the route request; its markers are in place
C6_Witness ==
    /\ flows[1].pc = "done" /\ flows[2].pc = "idle"
    /\ alerts[1] = <<"Route computation failed">>
    /\ MapMarkers = {originMarker, destMarker}
    /\ markers[originMarker].latlng = P(3864, -9029)
    /\ markers[destMarker].latlng = P(3860, -9020)
    /\ view.how = "fitBounds"

\* C7: when /route_multi answers with an error status the flow ends with the
\* alert "Route computation failed" and the overlays on the map, the tracked
\* layers and the cards are as before; the earlier steps of a flow (parsing,
\* geocoding, markers) do not touch them either.
C7_HttpErrorLeavesDisplay ==
    [][\A f \in Flows :
          /\ (Answered(f, "route") /\ ~answer'.ok) =>
                /\ alerts'[f] = Append(alerts[f], "Route computation failed")
                /\ flows'[f].pc = "done"
                /\ MapRoutes' = MapRoutes
                /\ UNCHANGED <<routeLayers, cards, sheetShown, events>>
          /\ (flows[f].pc \in {"idle", "geoO", "geoD"} /\ flows'[f] # flows[f]) =>
                /\ MapRoutes' = MapRoutes
                /\ UNCHANGED <<routeLayers, cards>>]_vars

\* flow 1 drew three routes; flow 2 then failed with an error status
C7_Witness ==
    /\ flows[2].pc = "done"
    /\ answer # Null /\ answer.to = 2 /\ answer.await = "route"
    /\ answer.ok = FALSE
    /\ alerts[2] = <<"Route computation failed">>
    /\ events = <<1>>
    /\ Cardinality(MapRoutes) = 3
    /\ Len(cards) = 3

\* C8: when /route_multi answers with a success status and a body without
\* routes, the flow ends with an alert and the route overlays that were live
\* are still attached and tracked.
C8_MissingRoutesKeepsOverlays ==
    [][\A f \in Flows :
          (/\ Answered(f, "route")
           /\ answer'.ok
           /\ "routes" \notin DOMAIN answer'.body) =>
              /\ Len(alerts'[f]) = Len(alerts[f]) + 1
              /\ flows'[f].pc = "done"
              /\ MapRoutes' = MapRoutes
              /\ routeLayers' = routeLayers]_vars

\* the incident markers in layer group g
IncidentMarkers(g) == UNION {Range(fg) : fg \in crimeGroups[g]}

\* C9: no step of a submission flow (markers, route request, clearRoutes,
\* drawMultiRoutes, cards; ending well or with an alert) changes the incident
\* overlay: the same layer group, or none, is attached and referenced, with
\* the same incident markers.
C9_SubmissionKeepsIncidents ==
    [][(flows' # flows) =>
          /\ crimeLayer' = crimeLayer
          /\ MapCrime' = MapCrime
          /\ crimeGroups' = crimeGroups]_vars

\* the overlay is shown with its two markers after one submission drew its
\* routes and the next one cleared them and failed
C9_Witness ==
    /\ events = <<1>>
    /\ flows[2].pc = "done" /\ Len(alerts[2]) = 1
    /\ MapRoutes = {}
    /\ shows[1].pc = "done" /\ shows[2].pc = "idle"
    /\ crimeLayer \in mapLayers
    /\ Cardinality(IncidentMarkers(crimeLayer)) = 2

\* C10: at most one incident layer group is attached to the map at any
\* instant; and when a showCrimeDots call completes, that group is attached
\* and referenced and holds exactly the markers of the call's own fetch, one
\* per feature received.
C10_OneIncidentLayer ==
    [][/\ Cardinality(MapCrime') <= 1
       /\ \A c \in Shows :
             (shows[c].pc = "fetch" /\ shows'[c].pc = "done") =>
                 /\ MapCrime' = {crimeLayer'}
                 /\ \A m \in IncidentMarkers(crimeLayer)' : m.fetch = c
                 /\ {m.idx : m \in IncidentMarkers(crimeLayer)'} = 1..shows'[c].n]_vars

\* the group created for the first answer was emptied and refilled when the
\* second call's answer came
C10_Witness ==
    /\ shows[1].pc = "done" /\ shows[1].n = 2
    /\ shows[2].pc = "done" /\ shows[2].n = 1
    /\ crimeLayer \in mapLayers
    /\ crimeLayer.by = 1
    /\ \A m \in IncidentMarkers(crimeLayer) : m.fetch = 2
    /\ Cardinality(IncidentMarkers(crimeLayer)) = 1

\* the point each in-range text denotes, by the text without its padding
ValidCores == {r.core : r \in ValidPairs}

ValidPoint ==
    [c \in ValidCores |->
        LET r == CHOOSE r \in ValidPairs : r.core = c IN P(r.lat, r.lon)]

\* C11: a flow whose origin (destination) field holds a text
\* <lat><separator><lon> with the pair inside the ranges never waits for the
\* geocoder for that field, and the point it resolved for the field, the
\* marker it placed and the coordinates of its route request are that pair.
C11_PairResolved ==
    \A f \in Flows :
        /\ flows[f].originQ \in ValidCores =>
              /\ flows[f].pc # "geoO"
              /\ flows[f].pc \in {"geoD", "route"} =>
                    P(flows[f].o.lat, flows[f].o.lon) = ValidPoint[flows[f].originQ]
              /\ flows[f].pc = "route" =>
                    /\ markers[originMarker].latlng = ValidPoint[flows[f].originQ]
                    /\ P(flows[f].req.orig_lat, flows[f].req.orig_lon)
                           = ValidPoint[flows[f].originQ]
        /\ flows[f].destQ \in ValidCores =>
              /\ flows[f].pc # "geoD"
              /\ flows[f].pc = "route" =>
                    /\ P(flows[f].d.lat, flows[f].d.lon) = ValidPoint[flows[f].destQ]
                    /\ markers[destMarker].latlng = ValidPoint[flows[f].destQ]
                    /\ P(flows[f].req.dest_lat, flows[f].req.dest_lon)
                           = ValidPoint[flows[f].destQ]

\* "+0.05  -180.000" was typed as the origin and the route request is out
C11_Witness ==
    /\ flows[1].pc = "route"
    /\ flows[1].originQ = <<"+", "0", ".", "0", "5", " ", " ",
                            "-", "1", "8", "0", ".", "0", "0", "0">>
    /\ flows[1].req.orig_lat = 5 /\ flows[1].req.orig_lon = -18000

\* the pair each out-of-range text denotes, by the text without its padding
OutOfRangeCores == {r.core : r \in OutOfRangePairs}

OutOfRangePoint ==
    [c \in OutOfRangeCores |->
        LET r == CHOOSE r \in OutOfRangePairs : r.core = c IN P(r.lat, r.lon)]

\* C12: a flow whose origin (destination) field holds a numeric pair outside
\* the ranges asks the geocoder for that field, with the field's text as the
\* query, when it comes to resolving it; and the pair is never the position
\* of a marker nor the coordinates of the flow's route request.
C12_OutOfRangeGeocoded ==
    [][\A f \in Flows :
          /\ flows'[f].originQ \in OutOfRangeCores =>
                /\ flows[f].pc = "idle" =>
                      /\ flows'[f].pc = "geoO"
                      /\ flows'[f].req = [q |-> flows'[f].originQ]
                /\ \A m \in DOMAIN markers' :
                      markers'[m].latlng # OutOfRangePoint[flows'[f].originQ]
                /\ flows'[f].pc = "route" =>
                      P(flows'[f].req.orig_lat, flows'[f].req.orig_lon)
                          # OutOfRangePoint[flows'[f].originQ]
          /\ flows'[f].destQ \in OutOfRangeCores =>
                /\ (/\ flows[f].pc \in {"idle", "geoO"}
                    /\ flows'[f].pc \notin {"idle", "geoO", "done"}) =>
                      /\ flows'[f].pc = "geoD"
                      /\ flows'[f].req = [q |-> flows'[f].destQ]
                /\ \A m \in DOMAIN markers' :
                      markers'[m].latlng # OutOfRangePoint[flows'[f].destQ]
                /\ flows'[f].pc = "route" =>
                      P(flows'[f].req.dest_lat, flows'[f].req.dest_lon)
                          # OutOfRangePoint[flows'[f].destQ]]_vars

\* "95,-90.29" was typed as the origin; the geocoder was asked and the
\* markers and the route request are at its first match
C12_Witness ==
    /\ flows[1].pc = "route"
    /\ flows[1].originQ = <<"9", "5", ",", "-", "9", "0", ".", "2", "9">>
    /\ markers[originMarker].latlng = P(Hit1.lat, Hit1.lon)
    /\ flows[1].req.orig_lat = Hit1.lat

\* the point and label the handler takes from a geocoder match
FromMatch(h) == [lat |-> h.lat, lon |-> h.lon, display |-> h.display_name]

\* C13: when the geocoder answers a flow with an empty sequence, the flow
\* ends with the alert "Origin not found." / "Destination not found.", no
\* marker is created, moved or relabelled, the flow sends no route request
\* and the route overlays and cards are as before; when it answers with
\* matches, the flow goes on with the first one.
C13_NotFoundStops ==
    [][\A f \in Flows :
          /\ ((Answered(f, "origin") \/ Answered(f, "dest"))
                  /\ answer'.ok /\ answer'.body = <<>>) =>
                /\ alerts'[f] = Append(alerts[f],
                        IF answer'.await = "origin" THEN "Origin not found."
                        ELSE "Destination not found.")
                /\ flows'[f].pc = "done"
                /\ UNCHANGED <<originMarker, destMarker, markers>>
                /\ MapMarkers' = MapMarkers
                /\ MapRoutes' = MapRoutes
                /\ UNCHANGED <<routeLayers, cards, sheetShown, events>>
          /\ (Answered(f, "origin") /\ answer'.ok /\ answer'.body # <<>>) =>
                /\ flows'[f].pc \in {"geoD", "route"}
                /\ flows'[f].o = FromMatch(answer'.body[1])
                /\ alerts'[f] = alerts[f]
          /\ (Answered(f, "dest") /\ answer'.ok /\ answer'.body # <<>>) =>
                /\ flows'[f].pc = "route"
                /\ flows'[f].d = FromMatch(answer'.body[1])
                /\ markers'[destMarker'].latlng
                       = P(answer'.body[1].lat, answer'.body[1].lon)
                /\ flows'[f].req.dest_lat = answer'.body[1].lat
                /\ alerts'[f] = alerts[f]]_vars

\* flow 1 drew its routes; flow 2's destination was not found, and the
\* markers and routes of flow 1 are in place
C13_Witness ==
    /\ events = <<1>>
    /\ flows[2].pc = "done"
    /\ alerts[2] = <<"Destination not found.">>
    /\ answer # Null /\ answer.to = 2 /\ answer.await = "dest"
    /\ answer.body = <<>>
    /\ originMarker # Null /\ originMarker.by = 1
    /\ MapMarkers = {originMarker, destMarker}
    /\ MapRoutes # {}

\* flow f is answered, in this step, with a failure: an error status, or no
\* match from the geocoder
FailsAt(f) ==
    /\ Answered(f, "origin") \/ Answered(f, "dest") \/ Answered(f, "route")
    /\ ~answer'.ok \/ (answer'.await # "route" /\ answer'.body = <<>>)

Failed(f) == flows[f].pc = "done" /\ alerts[f] # <<>>

\* C14: a flow that is answered with a failure (geocoder error, no match,
\* route error) ends in that step with exactly one more alert, and no flow
\* ever shows more than one; a submission made after a failure is turned
\* down only for an empty field, and a flow that gets routes after a failure
\* of another draws them (one overlay per route, its own), shows the sheet
\* and dispatches routes:updated without an alert.
C14_FailuresNotified ==
    [][\A f \in Flows :
          /\ Len(alerts'[f]) <= 1
          /\ flows'[f].pc = "done" => (alerts'[f] = <<>>) = (f \in Range(events'))
          /\ ((\E g \in Flows : Failed(g))
                  /\ flows[f].pc = "idle" /\ flows'[f].pc = "done") =>
                alerts'[f] = <<"Please enter both origin and destination.">>
          /\ FailsAt(f) =>
                /\ Len(alerts'[f]) = Len(alerts[f]) + 1
                /\ flows'[f].pc = "done"
                /\ \A g \in Flows \ {f} : alerts'[g] = alerts[g]
          /\ ((\E g \in Flows \ {f} : Failed(g))
                  /\ Answered(f, "route") /\ answer'.ok
                  /\ "routes" \in DOMAIN answer'.body) =>
                /\ flows'[f].pc = "done"
                /\ alerts' = alerts
                /\ events' = Append(events, f)
                /\ sheetShown'
                /\ MapRoutes' = Range(routeLayers')
                /\ Cardinality(MapRoutes') = Len(answer'.body.routes)
                /\ \A l \in MapRoutes' : l.rs = f
                /\ Len(cards') = Len(answer'.body.routes)]_vars

\* the first submission failed at the geocoder; the second one ran to its
\* end and its three routes are drawn
C14_Witness ==
    /\ alerts[1] = <<"Geocode failed">>
    /\ alerts[2] = <<>>
    /\ events = <<2>>
    /\ flows[2].pc = "done"
    /\ Cardinality(MapRoutes) = 3
    /\ \A l \in MapRoutes : l.rs = 2

\* C15: the steps of a submission come in the order resolve origin, resolve
\* destination, place markers, request routes, score, redraw, notify: the
\* geocoder is asked for the destination only with the origin resolved; the
\* request goes out with both points resolved and both markers placed; the
\* overlays of a flow are on the map only if its routes were scored (its
\* cards are in the box); and routes:updated is dispatched by a flow only
\* in the step that drew its overlays and cards, without an alert.
C15_StepsInOrder ==
    [][\A f \in Flows :
          /\ flows'[f].pc = "geoD" => flows'[f].o # Null
          /\ Places(f) =>
                /\ flows'[f].o # Null /\ flows'[f].d # Null
                /\ {originMarker', destMarker'} \subseteq mapLayers'
          /\ (Answered(f, "route") /\ \E l \in MapRoutes' : l.rs = f) =>
                /\ Len(cards') = Cardinality(MapRoutes')
                /\ \A i \in DOMAIN cards' : cards'[i].rs = f
          /\ (Len(events') > Len(events) /\ Answered(f, "route")) =>
                /\ events' = Append(events, f)
                /\ alerts' = alerts
                /\ sheetShown'
                /\ MapRoutes' # {}
                /\ \A l \in MapRoutes' : l.rs = f
                /\ \A i \in DOMAIN cards' : cards'[i].rs = f]_vars

\* the cards in the box are those of the routes of the last answer
CardsOfAnswer ==
    /\ answer # Null /\ answer.await = "route" /\ answer.ok
    /\ "routes" \in DOMAIN answer.body
    /\ Len(cards) = Len(answer.body.routes)
    /\ \A i \in DOMAIN cards : cards[i].rs = answer.to /\ cards[i].idx = i

RiskOfCard(i) == answer.body.routes[i].stats.mean_risk

\* C16: on the cards of a route set, a route with a greater mean risk never
\* has the greater safety score, and a route with mean risk 0 scores 100.
C16_ScoresMonotone ==
    CardsOfAnswer =>
        \A i, j \in DOMAIN cards :
            /\ RiskOfCard(i) > RiskOfCard(j) => cards[i].safety <= cards[j].safety
            /\ RiskOfCard(i) = 0 => cards[i].safety = 100

\* risks 10, 0 and 5 were scored 0, 100 and 50
C16_Witness ==
    /\ CardsOfAnswer
    /\ Len(cards) = 3
    /\ RiskOfCard(1) = 10 /\ RiskOfCard(2) = 0 /\ RiskOfCard(3) = 5
    /\ cards[1].safety = 0 /\ cards[2].safety = 100 /\ cards[3].safety = 50

\* the greatest mean risk of the routes of the last answer, floored at the
\* epsilon 1e-9
FlooredMaxRisk ==
    LET risks == {RiskOfCard(i) : i \in DOMAIN cards}
        top   == CHOOSE x \in risks : \A y \in risks : y <= x
    IN  IF top < 1 THEN 1 ELSE top

\* C17: on the cards of a route set every safety score is an integer s in
\* 0..100 with s = round(100 * (1 - min(1, risk / max))), max the greatest
\* mean risk of the set floored at the epsilon (so never 0), that is
\* s <= 100 * (max - risk) / max + 1/2 < s + 1; and when every route of the
\* set has mean risk 0 every score is 100.
C17_ScoresRounded ==
    CardsOfAnswer =>
        /\ FlooredMaxRisk > 0
        /\ \A i \in DOMAIN cards :
              LET s == cards[i].safety
                  m == FlooredMaxRisk
                  x == 200 * (m - RiskOfCard(i)) + m
              IN  /\ s \in 0..100
                  /\ 2 * m * s <= x
                  /\ x < 2 * m * (s + 1)
        /\ (\A i \in DOMAIN cards : RiskOfCard(i) = 0) =>
              \A i \in DOMAIN cards : cards[i].safety = 100

\* three routes without risk all scored 100
C17_Witness ==
    /\ CardsOfAnswer
    /\ Len(cards) = 3
    /\ \A i \in DOMAIN cards : RiskOfCard(i) = 0 /\ cards[i].safety = 100

\* C18: the badge on a card is Safe exactly when the card's score is at
\* least 80, Moderate exactly when it is at least 60 and below 80, and
\* Caution exactly when it is below 60.
C18_BadgeTiers ==
    CardsOfAnswer =>
        \A i \in DOMAIN cards :
            LET s == cards[i].safety
                b == cards[i].badge.text
            IN  /\ b \in {"Safe", "Moderate", "Caution"}
                /\ b = "Safe" <=> s >= 80
                /\ b = "Moderate" <=> (s >= 60 /\ s < 80)
                /\ b = "Caution" <=> s < 60

\* the limits: 80 is Safe, 79 and 60 are Moderate, 59 is Caution
C18_Witness ==
    /\ CardsOfAnswer
    /\ Len(cards) = 3
    /\ \/ /\ cards[2].safety = 80 /\ cards[2].badge.text = "Safe"
          /\ cards[3].safety = 79 /\ cards[3].badge.text = "Moderate"
       \/ /\ cards[2].safety = 60 /\ cards[2].badge.text = "Moderate"
          /\ cards[3].safety = 59 /\ cards[3].badge.text = "Caution"

\* the title and the description the three-way split on beta (in 1/10) gives
\* for a travel mode
TitleByBeta(beta) ==
    IF beta = 0 THEN "Fastest Route"
    ELSE IF beta >= 10 THEN "Safest Route"
    ELSE "Balanced Route"

DescriptionByBeta(beta, mode) ==
    IF beta = 0
    THEN CASE mode = "walk"  -> "Direct route optimized for walk"
           [] mode = "bike"  -> "Direct route optimized for bike"
           [] mode = "drive" -> "Direct route optimized for drive"
    ELSE IF beta >= 10
    THEN CASE mode = "walk"  -> "Maximum safety route for walk"
           [] mode = "bike"  -> "Maximum safety route for bike"
           [] mode = "drive" -> "Maximum safety route for drive"
    ELSE CASE mode = "walk"  -> "Good compromise between speed and safety for walk"
           [] mode = "bike"  -> "Good compromise between speed and safety for bike"
           [] mode = "drive" -> "Good compromise between speed and safety for drive"

\* C19: every card carries the title and the description that the split on
\* its route's beta gives, the description naming the travel mode of the
\* result set the card was rendered for.
C19_TitleAndDescription ==
    \A i \in DOMAIN cards :
        /\ cards[i].title = TitleByBeta(cards[i].href.beta)
        /\ cards[i].subtitle
               = DescriptionByBeta(cards[i].href.beta, cards[i].href.mode)

DetourOfCard(i) == answer.body.routes[i].stats.detour_m_vs_beta0

\* C20: every card of part_000 reports its route's detour d against the
\* beta = 0 route: "same distance as beta=0" when |d| < 1, else "+N m" when
\* d >= 1 and "-N m" when d <= -1, N being |d| rounded to a whole number
\* (N - 1/2 <= |d| < N + 1/2).
C20_DetourText ==
    CardsOfAnswer =>
        \A i \in DOMAIN cards :
            LET d == DetourOfCard(i)
                a == IF d < 0 THEN 0 - d ELSE d
                t == cards[i].detourTxt
            IN  IF a < 10 THEN t = <<"same distance as beta=0">>
                ELSE \E N \in 1..200 :
                        /\ 10 * N - 5 <= a /\ a < 10 * N + 5
                        /\ t = <<(IF d > 0 THEN "+" ELSE "-")>> \o NatChars(N) \o <<" m">>

\* detours of 0.4 and -120 read "same distance as beta=0" and "-120 m"
C20_Witness ==
    /\ CardsOfAnswer
    /\ Len(cards) = 2
    /\ DetourOfCard(1) = 4 /\ cards[1].detourTxt = <<"same distance as beta=0">>
    /\ DetourOfCard(2) = -1200
    /\ cards[2].detourTxt = <<"-", "1", "2", "0", " m">>

\* C21: a step of one flow leaves the other flows as they are (a submission
\* cancels none); and when no flow is running any more, at least two have
\* been submitted and each of them drew its routes, the overlays on the map
\* and the tracked layers are those of the flow that drew last, whichever
\* was submitted first.
C21_LastDrawWins ==
    [][/\ \A f, g \in Flows :
             (f # g /\ flows'[f] # flows[f]) => flows'[g] = flows[g]
       /\ (/\ \A f \in Flows : flows'[f].pc \in {"idle", "done"}
           /\ Len(events') >= 2
           /\ \A f \in Flows : flows'[f].pc = "done" => f \in Range(events')) =>
             /\ MapRoutes' # {}
             /\ \A l \in MapRoutes' : l.rs = events'[Len(events')]
             /\ MapRoutes' = Range(routeLayers')]_vars

\* both flows drew; flow 1, submitted first, drew last and its three routes
\* are the ones on the map
C21_Witness ==
    /\ flows[1].pc = "done" /\ flows[2].pc = "done"
    /\ events = <<2, 1>>
    /\ Cardinality(MapRoutes) = 3
    /\ \A l \in MapRoutes : l.rs = 1
    /\ alerts = [f \in Flows |-> <<>>]

\* the route layers and connector lines on the map
RouteArtifacts == {l \in mapLayers : l.kind \in {"route", "connector"}}

\* C22: in the single-route variant, when no submission is running and one
\* has drawn its route, every route layer and connector line on the map is
\* of the result drawn last (the one routeLayer refers to), and that layer
\* is on the map.
C22_NoStaleArtifacts ==
    ((\A f \in Flows : flows[f].pc \in {"idle", "done"}) /\ routeLayer # Null) =>
        /\ routeLayer \in mapLayers
        /\ \A l \in RouteArtifacts : l.rs = routeLayer.rs

\* C23: when hideCrimeDots is called while showCrimeDots calls await their
\* fetch, and the next thing to happen is the answer to the last such call
\* (so no showCrimeDots is called in between), then with that answer the
\* incident overlay is absent: crimeLayer is null and no incident layer
\* group is attached to the map.
C23_HideNotUndone ==
    [][\A c \in Shows :
          (/\ answer = HideCall
           /\ shows[c].pc = "fetch" /\ shows'[c].pc # "fetch"
           /\ answer' # Null /\ answer'.to = c /\ answer'.await = "crimes"
           /\ \A k \in Shows : shows'[k].pc # "fetch") =>
              /\ crimeLayer' = Null
              /\ MapCrime' = {}]_vars

\* C24: when a flow draws its routes and with that step no submission is
\* left running and none has failed, the origin and destination markers
\* are on the map at the origin and destination of that flow's route
\* request, the one whose routes are the overlays on the map.
C24_MarkersMatchRoutes ==
    [][\A f \in Flows :
          (/\ Draws(f)
           /\ \A g \in Flows : flows'[g].pc \in {"idle", "done"}
           /\ \A g \in Flows : alerts'[g] = <<>>) =>
              /\ \A l \in MapRoutes' : l.rs = f
              /\ originMarker' \in mapLayers' /\ destMarker' \in mapLayers'
              /\ markers'[originMarker'].latlng
                     = P(flows[f].req.orig_lat, flows[f].req.orig_lon)
              /\ markers'[destMarker'].latlng
                     = P(flows[f].req.dest_lat, flows[f].req.dest_lon)]_vars

====
